---------------------------- MODULE Spec2Model ----------------------------
(***************************************************************************)
(* The OAuth 2.0 authorization-code provider of oauth2/provider.py.        *)
(*                                                                         *)
(* One call is in flight at a time.  Every statement of a handler that     *)
(* invokes a host hook is one step, so that the order and the number of    *)
(* hook invocations are part of the state (hooks), and a hook may return   *)
(* either boolean or raise.  Exceptions follow the Python 2 hierarchy:     *)
(* TypeError < StandardError < Exception.                                  *)
(*                                                                         *)
(* Spec is the provider with arbitrary hooks, one call after another.      *)
(* HostSpec runs the same steps against a host that keeps the persisted    *)
(* codes in a store and generates fresh strings.  ThreadSpec runs the      *)
(* steps of get_token in several threads that share such a store, a        *)
(* thread switch being possible between any two hook invocations.          *)
(***************************************************************************)
EXTENDS Naturals, Sequences, FiniteSets, TLC

VARIABLES
    pc,       \* position of the call in flight ("idle" when there is none)
    entry,    \* the entry point the caller invoked
    args,     \* the named arguments the operation is called with (**params)
    loc,      \* the local variables of get_authorization_code / get_token
    hooks,    \* the host hooks invoked by this call, in order, with arguments
    exc,      \* the exception travelling up to the from_url handler
    result,   \* what the caller gets: a response, or a raised exception
    host,     \* what the host application keeps across calls
    sched     \* the running thread, and the frames of the threads that wait

vars == <<pc, entry, args, loc, hooks, exc, result, host, sched>>

---------------------------------------------------------------------------
(* Values *)

None == "<None>"
Unset == "<unset>"

\* Exception kinds: a TypeError, a StandardError that is no TypeError, and an
\* Exception outside StandardError (what `except StandardError` lets through).
ExcKinds == {"TypeError", "StandardError", "Exception"}

\* The number of distinct strings the generators may return.
MaxGen == 3

\* The strings the generators may return (utils.random_ascii_string).
GenNames == <<"rnd1", "rnd2", "rnd3", "rnd4">>
GenStrings == {GenNames[i] : i \in 1..MaxGen}

token_type == "Bearer"
token_expires_in == 3600

\* Parameter names in the order in which a query string lists them.
ParamOrder ==
    <<"client_id", "client_secret", "code", "error", "grant_type",
      "redirect_uri", "response_type", "scope", "state", "x">>

ParamNames == {ParamOrder[i] : i \in DOMAIN ParamOrder}

RedirectUris ==
    {"https://app/cb", "https://app/cb?client_id=old&x=1",
     "https://app/cb?code=stale"}

\* urlparse of the redirect URIs: the part before the query, and the query.
ParseUrl(u) ==
    CASE u = "https://app/cb?client_id=old&x=1" ->
            [base |-> "https://app/cb",
             query |-> << <<"client_id", "old">>, <<"x", "1">> >>]
      [] u = "https://app/cb?code=stale" ->
            [base |-> "https://app/cb", query |-> << <<"code", "stale">> >>]
      [] OTHER -> [base |-> u, query |-> << >>]

---------------------------------------------------------------------------
(* URL query codec (oauth2/utils.py) *)

\* parse a query (a sequence of name/value pairs) into a mapping; of several
\* occurrences of a name the last one wins.
ParseQuery(q) ==
    LET names == {q[i][1] : i \in DOMAIN q}
        last(k) == CHOOSE i \in DOMAIN q :
                      /\ q[i][1] = k
                      /\ \A j \in DOMAIN q : q[j][1] = k => j <= i
    IN  [k \in names |-> q[last(k)][2]]

\* the query string of a mapping: its pairs, in ParamOrder.
EncodeQuery(m) ==
    LET keys == SelectSeq(ParamOrder, LAMBDA k : k \in DOMAIN m)
    IN  [i \in DOMAIN keys |-> <<keys[i], m[keys[i]]>>]

url_query_params(url) == ParseQuery(url.query)

\* dict.update
Update(d, e) ==
    [k \in DOMAIN d \cup DOMAIN e |-> IF k \in DOMAIN e THEN e[k] ELSE d[k]]

\* merge base's query with params; a parameter whose value is None is removed.
build_url(base, params) ==
    LET u == ParseUrl(base)
        merged == Update(ParseQuery(u.query), params)
        kept == {k \in DOMAIN merged : ~(k \in DOMAIN params /\ params[k] = None)}
    IN  [base |-> u.base, query |-> EncodeQuery([k \in kept |-> merged[k]])]

---------------------------------------------------------------------------
(* Response builder (class Provider) *)

EmptyBody == [kind |-> "empty"]

json_dumps(data) == [kind |-> "json", data |-> data]

NoHeaders == [h \in {} |-> ""]

_make_response(body, headers, status_code) ==
    [kind |-> "response", status_code |-> status_code,
     headers |-> headers, body |-> body]

\* _make_redirect_error_response that leaves client_id in the redirect.
_make_redirect_error_response_client_id(redirect_uri, err) ==
    LET params == [error |-> err, response_type |-> None,
                   redirect_uri |-> None]
        redirect == build_url(redirect_uri, params)
    IN  _make_response(EmptyBody, [Location |-> redirect], 302)

_make_redirect_error_response(redirect_uri, err) ==
    LET params == [error |-> err, response_type |-> None,
                   client_id |-> None, redirect_uri |-> None]
        redirect == build_url(redirect_uri, params)
    IN  _make_response(EmptyBody, [Location |-> redirect], 302)

\* _make_json_response that forgets the Pragma header.
_make_json_response_no_pragma(data, headers, status_code) ==
    LET response_headers ==
            Update(headers,
                   ("Content-Type" :> "application/json;charset=UTF-8")
                   @@ ("Cache-Control" :> "no-store"))
    IN  _make_response(json_dumps(data), response_headers, status_code)

_make_json_response(data, headers, status_code) ==
    LET response_headers ==
            Update(headers,
                   ("Content-Type" :> "application/json;charset=UTF-8")
                   @@ ("Cache-Control" :> "no-store")
                   @@ ("Pragma" :> "no-cache"))
    IN  _make_response(json_dumps(data), response_headers, status_code)

_make_json_error_response(err) ==
    _make_json_response([error |-> err], NoHeaders, 400)

_missing_redirect_uri_response == _make_json_error_response("invalid_request")

Raised(e) == [kind |-> "raised", exc |-> e]

NoResult == [kind |-> "none"]

---------------------------------------------------------------------------
(* The inputs a caller may supply *)

\* the values a caller may give to each parameter.
Vals(k) ==
    CASE k = "response_type" -> {"code", "token"}
      [] k = "grant_type"    -> {"authorization_code", "password"}
      [] k = "client_id"     -> {"client1", "client2"}
      [] k = "client_secret" -> {"secret1"}
      [] k = "redirect_uri"  -> RedirectUris
      [] k = "code"          -> {"badcode"} \cup GenStrings
      [] k = "scope"         -> {"read"}
      [] k = "state"         -> {"xyz"}
      [] OTHER               -> {"1"}

\* every mapping that gives a value to each name of S.
RECURSIVE MappingsOver(_)
MappingsOver(S) ==
    IF S = {} THEN {[k \in {} |-> ""]}
    ELSE LET k == CHOOSE x \in S : TRUE
         IN  {(k :> v) @@ m : v \in Vals(k), m \in MappingsOver(S \ {k})}

\* every mapping that gives values to some of the names.
Mappings(names) == UNION {MappingsOver(S) : S \in SUBSET names}

AuthorizeRequired == {"response_type", "client_id", "redirect_uri"}
TokenRequired ==
    {"grant_type", "client_id", "client_secret", "redirect_uri", "code"}

AuthorizeNames == AuthorizeRequired \cup {"scope", "state", "code"}
TokenNames == TokenRequired \cup {"scope"}

\* a request URL: its path, and its query as the pairs it lists.
Urls(path, names) ==
    {[base |-> path, query |-> EncodeQuery(m)] : m \in Mappings(names)}

\* request URLs whose query lists state twice.
RepeatedUrls(path, names, required) ==
    {[base |-> path, query |-> << <<"state", "old">> >> \o EncodeQuery(m)] :
     m \in {n \in Mappings(names) : required \cup {"state"} \subseteq DOMAIN n}}

---------------------------------------------------------------------------
(* State *)

InitLoc ==
    [is_valid_client_id |-> FALSE, is_valid_client_secret |-> FALSE,
     is_valid_access |-> FALSE, is_valid_scope |-> FALSE,
     is_valid_grant |-> FALSE, scope |-> Unset, code |-> Unset,
     access_token |-> Unset, refresh_token |-> Unset,
     token_type |-> Unset, expires_in |-> 0]

NoArgs == [k \in {} |-> ""]

\* a host that has stored and generated nothing yet.
HostEmpty ==
    [generated |-> 0, codes |-> {}, exchanged |-> {}, issued |-> << >>,
     invoked |-> 0, returned |-> 0, succeeded |-> 0, calls |-> 0]

\* a single thread: nothing waits.
NoSched == [cur |-> 0, saved |-> << >>]

Init ==
    /\ pc = "idle"
    /\ entry = "none"
    /\ args = NoArgs
    /\ loc = InitLoc
    /\ hooks = << >>
    /\ exc = "none"
    /\ result = NoResult
    /\ host = HostEmpty
    /\ sched = NoSched

\* **params of get_authorization_code: the arguments that are not positional.
AuthorizeParams == [k \in DOMAIN args \ AuthorizeRequired |-> args[k]]

\* **params of get_token.
TokenParams == [k \in DOMAIN args \ TokenRequired |-> args[k]]

\* dict.get(key, default)
Get(d, k, default) == IF k \in DOMAIN d THEN d[k] ELSE default

\* a hook invocation: the hook, its arguments, and what it returned ("raise"
\* when it raised instead).
Hook(name, a, ret) == [name |-> name, args |-> a, ret |-> ret]

Invoke(name, a, ret) == hooks' = Append(hooks, Hook(name, a, ret))

Str(b) == IF b THEN "True" ELSE "False"

Return(r) ==
    /\ pc' = "done"
    /\ result' = r
    /\ exc' = exc

\* Raise that answers a direct caller with server_error.
RaiseSwallowed(e) ==
    /\ exc' = e
    /\ IF entry \in {"authorize", "token"}
       THEN pc' = "done" /\ result' = _make_json_error_response("server_error")
       ELSE pc' = "except" /\ result' = result

\* an exception leaves get_authorization_code / get_token: a direct caller
\* receives it, a from_url entry point handles it.
Raise(e) ==
    /\ exc' = e
    /\ IF entry \in {"authorize", "token"}
       THEN pc' = "done" /\ result' = Raised(e)
       ELSE pc' = "except" /\ result' = result

---------------------------------------------------------------------------
(* Host hooks: what a call of one may do *)

\* a validate_* hook returns a boolean, kept in local `field`, or raises.
CallValidate(name, a, l, field, next) ==
    \/ \E r \in BOOLEAN :
          /\ Invoke(name, a, Str(r))
          /\ loc' = [l EXCEPT ![field] = r]
          /\ pc' = next
          /\ UNCHANGED <<exc, result>>
    \/ \E e \in ExcKinds :
          /\ Invoke(name, a, "raise")
          /\ loc' = l
          /\ Raise(e)

\* a generate_* hook returns a string, kept in local `field`, or raises.
CallGenerate(name, l, field, next) ==
    \/ \E t \in GenStrings :
          /\ Invoke(name, NoArgs, t)
          /\ loc' = [l EXCEPT ![field] = t]
          /\ pc' = next
          /\ UNCHANGED <<exc, result>>
    \/ \E e \in ExcKinds :
          /\ Invoke(name, NoArgs, "raise")
          /\ loc' = loc
          /\ Raise(e)

\* a persist_* hook returns nothing, or raises.
CallPersist(name, a, next) ==
    \/ /\ Invoke(name, a, "None")
       /\ pc' = next
       /\ UNCHANGED <<exc, result>>
    \/ \E e \in ExcKinds :
          /\ Invoke(name, a, "raise")
          /\ Raise(e)

---------------------------------------------------------------------------
(* get_authorization_code *)

\* the caller invokes get_authorization_code with every positional argument.
CallAuthorize ==
    /\ pc = "idle"
    /\ \E a \in Mappings(AuthorizeNames) :
          /\ AuthorizeRequired \subseteq DOMAIN a
          /\ args' = a
    /\ entry' = "authorize"
    /\ pc' = "a_response_type"
    /\ UNCHANGED <<loc, hooks, exc, result>>

\* AuthorizeResponseType that looks at response_type only after the checks.
AuthorizeResponseTypeLate ==
    /\ pc = "a_response_type"
    /\ pc' = "a_validate_client_id"
    /\ UNCHANGED <<entry, args, loc, hooks, exc, result>>

\* if response_type != 'code': return the error redirect.
AuthorizeResponseType ==
    /\ pc = "a_response_type"
    /\ IF args["response_type"] # "code"
       THEN Return(_make_redirect_error_response(args["redirect_uri"],
                                                 "unsupported_response_type"))
       ELSE /\ pc' = "a_validate_client_id"
            /\ UNCHANGED <<exc, result>>
    /\ UNCHANGED <<entry, args, loc, hooks>>

\* is_valid_client_id = self.validate_client_id(client_id)
AuthorizeValidateClientId ==
    /\ pc = "a_validate_client_id"
    /\ CallValidate("validate_client_id", [client_id |-> args["client_id"]],
                    loc, "is_valid_client_id", "a_validate_access")
    /\ UNCHANGED <<entry, args>>

\* is_valid_access = self.validate_access()
AuthorizeValidateAccess ==
    /\ pc = "a_validate_access"
    /\ CallValidate("validate_access", NoArgs,
                    loc, "is_valid_access", "a_validate_scope")
    /\ UNCHANGED <<entry, args>>

\* scope = params.get('scope', '')
\* is_valid_scope = self.validate_scope(client_id, scope)
AuthorizeValidateScope ==
    /\ pc = "a_validate_scope"
    /\ LET scope == Get(AuthorizeParams, "scope", "")
       IN  CallValidate("validate_scope",
                        [client_id |-> args["client_id"], scope |-> scope],
                        [loc EXCEPT !.scope = scope],
                        "is_valid_scope", "a_report")
    /\ UNCHANGED <<entry, args>>

\* AuthorizeError with the scope check reported before the access check.
AuthorizeErrorScopeFirst(is_valid_client_id, is_valid_access, is_valid_scope) ==
    IF ~is_valid_client_id THEN "unauthorized_client"
    ELSE IF ~is_valid_scope THEN "invalid_scope"
    ELSE IF ~is_valid_access THEN "access_denied"
    ELSE "none"

\* AuthorizeError without the scope check.
AuthorizeErrorNoScope(is_valid_client_id, is_valid_access, is_valid_scope) ==
    IF ~is_valid_client_id THEN "unauthorized_client"
    ELSE IF ~is_valid_access THEN "access_denied"
    ELSE "none"

\* the error the three checks report, by priority ("none" when all hold).
AuthorizeError(is_valid_client_id, is_valid_access, is_valid_scope) ==
    IF ~is_valid_client_id THEN "unauthorized_client"
    ELSE IF ~is_valid_access THEN "access_denied"
    ELSE IF ~is_valid_scope THEN "invalid_scope"
    ELSE "none"

\* Return proper error responses on invalid conditions
AuthorizeReport ==
    /\ pc = "a_report"
    /\ LET err == AuthorizeError(loc.is_valid_client_id, loc.is_valid_access,
                                 loc.is_valid_scope)
       IN  IF err # "none"
           THEN Return(_make_redirect_error_response(args["redirect_uri"], err))
           ELSE /\ pc' = "a_generate"
                /\ UNCHANGED <<exc, result>>
    /\ UNCHANGED <<entry, args, loc, hooks>>

\* code = self.generate_authorization_code()
AuthorizeGenerate ==
    /\ pc = "a_generate"
    /\ CallGenerate("generate_authorization_code", loc, "code", "a_persist")
    /\ UNCHANGED <<entry, args>>

\* the arguments of persist_authorization_code.
AuthorizePersistArgs(client_id, code, scope) ==
    [client_id |-> client_id, code |-> code, scope |-> scope]

\* AuthorizePersist that persists nothing.
AuthorizePersistSkipped ==
    /\ pc = "a_persist"
    /\ pc' = "a_redirect"
    /\ UNCHANGED <<entry, args, loc, hooks, exc, result>>

\* self.persist_authorization_code(client_id=..., code=code, scope=scope)
AuthorizePersist ==
    /\ pc = "a_persist"
    /\ CallPersist("persist_authorization_code",
                   AuthorizePersistArgs(args["client_id"], loc.code, loc.scope),
                   "a_redirect")
    /\ UNCHANGED <<entry, args, loc>>

\* AuthorizeRedirectParams that removes scope from the redirect as well.
AuthorizeRedirectParamsNoScope(params, code) ==
    Update(params, [code |-> code, response_type |-> None,
                    client_id |-> None, redirect_uri |-> None,
                    scope |-> None])

\* the parameters of the success redirect: params.update({...}).
AuthorizeRedirectParams(params, code) ==
    Update(params, [code |-> code, response_type |-> None,
                    client_id |-> None, redirect_uri |-> None])

\* Return redirection response
AuthorizeRedirect ==
    /\ pc = "a_redirect"
    /\ LET params == AuthorizeRedirectParams(AuthorizeParams, loc.code)
           redirect == build_url(args["redirect_uri"], params)
       IN  Return(_make_response(EmptyBody, [Location |-> redirect], 302))
    /\ UNCHANGED <<entry, args, loc, hooks>>

---------------------------------------------------------------------------
(* get_token *)

\* the caller invokes get_token with every positional argument.
CallToken ==
    /\ pc = "idle"
    /\ \E a \in Mappings(TokenNames) :
          /\ TokenRequired \subseteq DOMAIN a
          /\ args' = a
    /\ entry' = "token"
    /\ pc' = "t_grant_type"
    /\ UNCHANGED <<loc, hooks, exc, result>>

\* if grant_type != 'authorization_code': return the JSON error.
TokenGrantType ==
    /\ pc = "t_grant_type"
    /\ IF args["grant_type"] # "authorization_code"
       THEN Return(_make_json_error_response("unsupported_grant_type"))
       ELSE /\ pc' = "t_validate_client_id"
            /\ UNCHANGED <<exc, result>>
    /\ UNCHANGED <<entry, args, loc, hooks>>

\* TokenValidateClientId that reports an invalid client id at once.
TokenValidateClientIdShortCircuit ==
    /\ pc = "t_validate_client_id"
    /\ \/ /\ Invoke("validate_client_id", [client_id |-> args["client_id"]],
                    "True")
          /\ loc' = [loc EXCEPT !.is_valid_client_id = TRUE]
          /\ pc' = "t_validate_client_secret"
          /\ UNCHANGED <<exc, result>>
       \/ /\ Invoke("validate_client_id", [client_id |-> args["client_id"]],
                    "False")
          /\ loc' = loc
          /\ pc' = "t_report"
          /\ UNCHANGED <<exc, result>>
    /\ UNCHANGED <<entry, args>>

\* is_valid_client_id = self.validate_client_id(client_id)
TokenValidateClientId ==
    /\ pc = "t_validate_client_id"
    /\ CallValidate("validate_client_id", [client_id |-> args["client_id"]],
                    loc, "is_valid_client_id", "t_validate_client_secret")
    /\ UNCHANGED <<entry, args>>

\* is_valid_client_secret = self.validate_client_secret(client_id, client_secret)
TokenValidateClientSecret ==
    /\ pc = "t_validate_client_secret"
    /\ CallValidate("validate_client_secret",
                    [client_id |-> args["client_id"],
                     client_secret |-> args["client_secret"]],
                    loc, "is_valid_client_secret", "t_validate_scope")
    /\ UNCHANGED <<entry, args>>

\* scope = params.get('scope', '')
\* is_valid_scope = self.validate_scope(client_id, scope)
TokenValidateScope ==
    /\ pc = "t_validate_scope"
    /\ LET scope == Get(TokenParams, "scope", "")
       IN  CallValidate("validate_scope",
                        [client_id |-> args["client_id"], scope |-> scope],
                        [loc EXCEPT !.scope = scope],
                        "is_valid_scope", "t_validate_authorization_code")
    /\ UNCHANGED <<entry, args>>

\* is_valid_grant = self.validate_authorization_code(client_id, code)
TokenValidateAuthorizationCode ==
    /\ pc = "t_validate_authorization_code"
    /\ CallValidate("validate_authorization_code",
                    [client_id |-> args["client_id"], code |-> args["code"]],
                    loc, "is_valid_grant", "t_report")
    /\ UNCHANGED <<entry, args>>

\* TokenError that forgets the client secret.
TokenErrorIdOnly(is_valid_client_id, is_valid_client_secret, is_valid_grant, is_valid_scope) ==
    IF ~is_valid_client_id THEN "invalid_client"
    ELSE IF ~is_valid_grant THEN "invalid_grant"
    ELSE IF ~is_valid_scope THEN "invalid_scope"
    ELSE "none"

\* TokenError that does not look at the grant.
TokenErrorNoGrant(is_valid_client_id, is_valid_client_secret, is_valid_grant, is_valid_scope) ==
    IF ~(is_valid_client_id /\ is_valid_client_secret) THEN "invalid_client"
    ELSE IF ~is_valid_scope THEN "invalid_scope"
    ELSE "none"

\* the error the four checks report, by priority ("none" when all hold).
TokenError(is_valid_client_id, is_valid_client_secret, is_valid_grant, is_valid_scope) ==
    IF ~(is_valid_client_id /\ is_valid_client_secret) THEN "invalid_client"
    ELSE IF ~is_valid_grant THEN "invalid_grant"
    ELSE IF ~is_valid_scope THEN "invalid_scope"
    ELSE "none"

\* Return proper error responses on invalid conditions
TokenReport ==
    /\ pc = "t_report"
    /\ LET err == TokenError(loc.is_valid_client_id, loc.is_valid_client_secret,
                             loc.is_valid_grant, loc.is_valid_scope)
       IN  IF err # "none"
           THEN Return(_make_json_error_response(err))
           ELSE /\ pc' = "t_generate_access_token"
                /\ UNCHANGED <<exc, result>>
    /\ UNCHANGED <<entry, args, loc, hooks>>

\* access_token = self.generate_access_token()
\* token_type = self.token_type; expires_in = self.token_expires_in
TokenGenerateAccessToken ==
    /\ pc = "t_generate_access_token"
    /\ CallGenerate("generate_access_token",
                    [loc EXCEPT !.token_type = token_type,
                                !.expires_in = token_expires_in],
                    "access_token", "t_generate_refresh_token")
    /\ UNCHANGED <<entry, args>>

\* refresh_token = self.generate_refresh_token()
TokenGenerateRefreshToken ==
    /\ pc = "t_generate_refresh_token"
    /\ CallGenerate("generate_refresh_token", loc, "refresh_token", "t_persist")
    /\ UNCHANGED <<entry, args>>

\* TokenPersistArgs that persists the default scope.
TokenPersistArgsDefaultScope(client_id, code, l) ==
    [client_id |-> client_id, code |-> code, scope |-> "",
     access_token |-> l.access_token, token_type |-> l.token_type,
     expires_in |-> l.expires_in, refresh_token |-> l.refresh_token]

\* the arguments of persist_token_information.
TokenPersistArgs(client_id, code, l) ==
    [client_id |-> client_id, code |-> code, scope |-> l.scope,
     access_token |-> l.access_token, token_type |-> l.token_type,
     expires_in |-> l.expires_in, refresh_token |-> l.refresh_token]

\* self.persist_token_information(client_id=..., ..., refresh_token=...)
TokenPersist ==
    /\ pc = "t_persist"
    /\ CallPersist("persist_token_information",
                   TokenPersistArgs(args["client_id"], args["code"], loc),
                   "t_respond")
    /\ UNCHANGED <<entry, args, loc>>

\* TokenData that returns the access token as the refresh token too.
TokenDataSameToken(l) ==
    [access_token |-> l.access_token, token_type |-> l.token_type,
     expires_in |-> l.expires_in, refresh_token |-> l.access_token]

\* the data of the success response.
TokenData(l) ==
    [access_token |-> l.access_token, token_type |-> l.token_type,
     expires_in |-> l.expires_in, refresh_token |-> l.refresh_token]

\* Return json response
TokenRespond ==
    /\ pc = "t_respond"
    /\ Return(_make_json_response(TokenData(loc), NoHeaders, 200))
    /\ UNCHANGED <<entry, args, loc, hooks>>

---------------------------------------------------------------------------
(* get_authorization_code_from_url, get_token_from_url *)

\* CallAuthorizeFromUrl in which a missing argument is a KeyError.
CallAuthorizeFromUrlKeyError ==
    /\ pc = "idle"
    /\ \E url \in Urls("/authorize", AuthorizeNames) :
          LET params == url_query_params(url)
          IN  /\ args' = params
              /\ IF AuthorizeRequired \subseteq DOMAIN params
                 THEN pc' = "a_response_type" /\ exc' = exc
                 ELSE pc' = "except" /\ exc' = "StandardError"
    /\ entry' = "authorize_from_url"
    /\ UNCHANGED <<loc, hooks, result>>

\* params = utils.url_query_params(url); self.get_authorization_code(**params)
\* A call that lacks a positional argument raises TypeError before the body
\* of get_authorization_code runs.
CallAuthorizeFromUrl ==
    /\ pc = "idle"
    /\ \E url \in Urls("/authorize", AuthorizeNames)
                  \cup RepeatedUrls("/authorize", AuthorizeNames,
                                    AuthorizeRequired) :
          LET params == url_query_params(url)
          IN  /\ args' = params
              /\ IF AuthorizeRequired \subseteq DOMAIN params
                 THEN pc' = "a_response_type" /\ exc' = exc
                 ELSE pc' = "except" /\ exc' = "TypeError"
    /\ entry' = "authorize_from_url"
    /\ UNCHANGED <<loc, hooks, result>>

\* params = utils.url_query_params(url); self.get_token(**params)
CallTokenFromUrl ==
    /\ pc = "idle"
    /\ \E url \in Urls("/token", TokenNames) :
          LET params == url_query_params(url)
          IN  /\ args' = params
              /\ IF TokenRequired \subseteq DOMAIN params
                 THEN pc' = "t_grant_type" /\ exc' = exc
                 ELSE pc' = "except" /\ exc' = "TypeError"
    /\ entry' = "token_from_url"
    /\ UNCHANGED <<loc, hooks, result>>

\* AuthorizeFromUrlExcept that redirects only server errors.
AuthorizeFromUrlExceptNoRedirect(params, e) ==
    IF e = "TypeError"
    THEN _missing_redirect_uri_response
    ELSE IF e = "StandardError"
    THEN IF "redirect_uri" \in DOMAIN params
         THEN _make_redirect_error_response(params["redirect_uri"],
                                            "server_error")
         ELSE Raised("KeyError")
    ELSE Raised(e)

\* what the except clauses of get_authorization_code_from_url make of e.
AuthorizeFromUrlExcept(params, e) ==
    IF e = "TypeError"
    THEN IF "redirect_uri" \in DOMAIN params
         THEN _make_redirect_error_response(params["redirect_uri"],
                                            "invalid_request")
         ELSE _missing_redirect_uri_response
    ELSE IF e = "StandardError"
    THEN IF "redirect_uri" \in DOMAIN params
         THEN _make_redirect_error_response(params["redirect_uri"],
                                            "server_error")
         ELSE Raised("KeyError")
    ELSE Raised(e)

\* what the except clauses of get_token_from_url make of e.
TokenFromUrlExcept(e) ==
    IF e = "TypeError" THEN _make_json_error_response("invalid_request")
    ELSE IF e = "StandardError" THEN _make_json_error_response("server_error")
    ELSE Raised(e)

\* except TypeError / except StandardError of the from_url entry points.
Except ==
    /\ pc = "except"
    /\ IF entry = "authorize_from_url"
       THEN Return(AuthorizeFromUrlExcept(args, exc))
       ELSE Return(TokenFromUrlExcept(exc))
    /\ UNCHANGED <<entry, args, loc, hooks>>

\* the call is over; the provider keeps nothing of it.
Finish ==
    /\ pc = "done"
    /\ pc' = "idle"
    /\ entry' = "none"
    /\ args' = NoArgs
    /\ loc' = InitLoc
    /\ hooks' = << >>
    /\ exc' = "none"
    /\ result' = NoResult

\* the provider itself keeps no state across calls and takes no lock.
Next ==
    \/ CallAuthorize /\ UNCHANGED <<host, sched>>
    \/ AuthorizeResponseType /\ UNCHANGED <<host, sched>>
    \/ AuthorizeValidateClientId /\ UNCHANGED <<host, sched>>
    \/ AuthorizeValidateAccess /\ UNCHANGED <<host, sched>>
    \/ AuthorizeValidateScope /\ UNCHANGED <<host, sched>>
    \/ AuthorizeReport /\ UNCHANGED <<host, sched>>
    \/ AuthorizeGenerate /\ UNCHANGED <<host, sched>>
    \/ AuthorizePersist /\ UNCHANGED <<host, sched>>
    \/ AuthorizeRedirect /\ UNCHANGED <<host, sched>>
    \/ CallToken /\ UNCHANGED <<host, sched>>
    \/ TokenGrantType /\ UNCHANGED <<host, sched>>
    \/ TokenValidateClientId /\ UNCHANGED <<host, sched>>
    \/ TokenValidateClientSecret /\ UNCHANGED <<host, sched>>
    \/ TokenValidateScope /\ UNCHANGED <<host, sched>>
    \/ TokenValidateAuthorizationCode /\ UNCHANGED <<host, sched>>
    \/ TokenReport /\ UNCHANGED <<host, sched>>
    \/ TokenGenerateAccessToken /\ UNCHANGED <<host, sched>>
    \/ TokenGenerateRefreshToken /\ UNCHANGED <<host, sched>>
    \/ TokenPersist /\ UNCHANGED <<host, sched>>
    \/ TokenRespond /\ UNCHANGED <<host, sched>>
    \/ CallAuthorizeFromUrl /\ UNCHANGED <<host, sched>>
    \/ CallTokenFromUrl /\ UNCHANGED <<host, sched>>
    \/ Except /\ UNCHANGED <<host, sched>>
    \/ Finish /\ UNCHANGED <<host, sched>>

Spec == Init /\ [][Next]_vars

---------------------------------------------------------------------------
(* Vocabulary of the properties *)

\* the body of get_authorization_code / get_token was entered by this call.
InAuthorize ==
    /\ entry \in {"authorize", "authorize_from_url"}
    /\ AuthorizeRequired \subseteq DOMAIN args

InToken ==
    /\ entry \in {"token", "token_from_url"}
    /\ TokenRequired \subseteq DOMAIN args

\* the call is over and no exception was raised in it.
Completed == pc = "done" /\ exc = "none"

Responded == pc = "done" /\ result.kind = "response"

IsRedirect == Responded /\ "Location" \in DOMAIN result.headers

IsJson == Responded /\ result.body.kind = "json"

LocationParams == ParseQuery(result.headers["Location"].query)

\* the error a response reports ("none" when it reports none).
ErrorCode ==
    IF IsRedirect
    THEN Get(LocationParams, "error", "none")
    ELSE Get(result.body.data, "error", "none")

ValidateHooks ==
    {"validate_client_id", "validate_client_secret", "validate_scope",
     "validate_access", "validate_authorization_code"}

GenerateHooks ==
    {"generate_authorization_code", "generate_access_token",
     "generate_refresh_token"}

PersistHooks == {"persist_authorization_code", "persist_token_information"}

Invocations(names) == {i \in DOMAIN hooks : hooks[i].name \in names}

HookCount(name) == Cardinality(Invocations({name}))

\* what the (only) invocation of hook `name` returned.
Ret(name) == hooks[CHOOSE i \in DOMAIN hooks : hooks[i].name = name].ret

\* the arguments of the (only) invocation of hook `name`.
ArgsOf(name) == hooks[CHOOSE i \in DOMAIN hooks : hooks[i].name = name].args

---------------------------------------------------------------------------
(* The provider in a host that keeps a store *)

\* The number of calls the host serves.
MaxCalls == 2

\* the call has answered its caller with a success response.
Succeeded == Responded /\ ErrorCode = "none"

\* the calls the host lets in: at most MaxCalls of them, to its one
\* redirect_uri, without state, and to authorize without code.
HostServes ==
    /\ host.calls < MaxCalls
    /\ "state" \notin DOMAIN args'
    /\ "redirect_uri" \in DOMAIN args' => args'["redirect_uri"] = "https://app/cb"
    /\ entry' \in {"authorize", "authorize_from_url"} => "code" \notin DOMAIN args'

\* validate_authorization_code of the host: the pair is in the store.
HostValidGrant(client_id, code) ==
    \E c \in host.codes : c.client_id = client_id /\ c.code = code

\* what the hooks of the host answer to invocation h.  A generator yields a
\* string it never yielded before; validate_authorization_code looks the pair
\* up in the store; the other validators decide freely; a persist hook
\* stores, or raises.
HostAnswers(h) ==
    CASE h.name \in GenerateHooks ->
            /\ host.generated < MaxGen
            /\ h.ret = GenNames[host.generated + 1]
      [] h.name = "validate_authorization_code" ->
            h.ret = Str(HostValidGrant(h.args.client_id, h.args.code))
      [] h.name \in PersistHooks -> TRUE
      [] OTHER -> h.ret # "raise"

\* the host after invocation h: a persist hook that returns has stored its
\* arguments, one that raises has stored nothing.
HostAfter(h) ==
    CASE h.name \in GenerateHooks -> [host EXCEPT !.generated = @ + 1]
      [] h.name = "persist_authorization_code" ->
            IF h.ret = "raise"
            THEN [host EXCEPT !.invoked = @ + 1]
            ELSE [host EXCEPT !.invoked = @ + 1, !.returned = @ + 1,
                              !.codes = @ \cup {h.args}]
      [] h.name = "persist_token_information" ->
            IF h.ret = "raise"
            THEN [host EXCEPT !.invoked = @ + 1]
            ELSE [host EXCEPT !.invoked = @ + 1, !.returned = @ + 1,
                              !.exchanged = @ \cup {h.args.code}]
      [] OTHER -> host

\* the host once the call is over: it counts the successful calls, and notes
\* the code a successful authorize returned, with the call's arguments.
HostRecords ==
    IF ~Succeeded THEN host
    ELSE IF IsRedirect
    THEN [host EXCEPT !.succeeded = @ + 1,
                      !.issued = Append(@, [args |-> args,
                                            code |-> LocationParams["code"]])]
    ELSE [host EXCEPT !.succeeded = @ + 1]

\* a step of the provider, in the host: the step's hook invocation, if it has
\* one, is answered by the host.
Host ==
    /\ IF Len(hooks') > Len(hooks)
       THEN LET h == hooks'[Len(hooks')]
            IN  HostAnswers(h) /\ host' = HostAfter(h)
       ELSE IF pc = "idle"
       THEN HostServes /\ host' = [host EXCEPT !.calls = @ + 1]
       ELSE IF pc = "done"
       THEN host' = HostRecords
       ELSE host' = host
    /\ UNCHANGED sched

HostNext ==
    \/ CallAuthorize /\ Host
    \/ AuthorizeResponseType /\ Host
    \/ AuthorizeValidateClientId /\ Host
    \/ AuthorizeValidateAccess /\ Host
    \/ AuthorizeValidateScope /\ Host
    \/ AuthorizeReport /\ Host
    \/ AuthorizeGenerate /\ Host
    \/ AuthorizePersist /\ Host
    \/ AuthorizeRedirect /\ Host
    \/ CallToken /\ Host
    \/ TokenGrantType /\ Host
    \/ TokenValidateClientId /\ Host
    \/ TokenValidateClientSecret /\ Host
    \/ TokenValidateScope /\ Host
    \/ TokenValidateAuthorizationCode /\ Host
    \/ TokenReport /\ Host
    \/ TokenGenerateAccessToken /\ Host
    \/ TokenGenerateRefreshToken /\ Host
    \/ TokenPersist /\ Host
    \/ TokenRespond /\ Host
    \/ CallAuthorizeFromUrl /\ Host
    \/ CallTokenFromUrl /\ Host
    \/ Except /\ Host
    \/ Finish /\ Host

HostSpec == Init /\ [][HostNext]_vars

---------------------------------------------------------------------------
(* Concurrent calls of get_token *)

\* The number of threads that call get_token.
MaxThreads == 2

Threads == 1..MaxThreads

\* the frame of the running thread.
Frame ==
    [pc |-> pc, entry |-> entry, args |-> args, loc |-> loc, hooks |-> hooks,
     exc |-> exc, result |-> result]

\* the frame of a thread that has not called yet.
IdleFrame ==
    [pc |-> "idle", entry |-> "none", args |-> NoArgs, loc |-> InitLoc,
     hooks |-> << >>, exc |-> "none", result |-> NoResult]

\* the host after get_authorization_code('code', 'client1', 'https://app/cb')
\* succeeded once.
HostIssued ==
    [generated |-> 1,
     codes |-> {AuthorizePersistArgs("client1", "rnd1", "")},
     exchanged |-> {},
     issued |-> << [args |-> [response_type |-> "code",
                              client_id |-> "client1",
                              redirect_uri |-> "https://app/cb"],
                    code |-> "rnd1"] >>,
     invoked |-> 1, returned |-> 1, succeeded |-> 1, calls |-> 1]

\* one code is issued and no thread has called get_token yet.
ThreadInit ==
    /\ pc = "idle"
    /\ entry = "none"
    /\ args = NoArgs
    /\ loc = InitLoc
    /\ hooks = << >>
    /\ exc = "none"
    /\ result = NoResult
    /\ host = HostIssued
    /\ sched = [cur |-> 1, saved |-> [t \in Threads |-> IdleFrame]]

\* the calls of the threads: get_token with every argument, for the issued
\* code or another one, to the host's redirect_uri.
ThreadServes ==
    /\ TokenRequired \subseteq DOMAIN args'
    /\ args'["redirect_uri"] = "https://app/cb"
    /\ args'["code"] \in {"rnd1", "badcode"}

\* what the hooks of the host answer to a thread.  validate_authorization_code
\* is true only for a stored pair whose code was not exchanged yet; the
\* generators yield their strings in turn.
ThreadAnswers(h) ==
    CASE h.name \in GenerateHooks ->
            h.ret = GenNames[(host.generated % MaxGen) + 1]
      [] h.name = "validate_authorization_code" ->
            h.ret = Str(/\ HostValidGrant(h.args.client_id, h.args.code)
                        /\ h.args.code \notin host.exchanged)
      [] h.name \in PersistHooks -> TRUE
      [] OTHER -> h.ret # "raise"

\* a step of the running thread: its hook invocation, if it has one, is
\* answered by the host at once, as a whole.
Thread ==
    /\ IF Len(hooks') > Len(hooks)
       THEN LET h == hooks'[Len(hooks')]
            IN  ThreadAnswers(h) /\ host' = HostAfter(h)
       ELSE IF pc = "idle"
       THEN ThreadServes /\ host' = host
       ELSE host' = host
    /\ UNCHANGED sched

\* another thread runs: the provider takes no lock, so a switch may come
\* between any two steps.
Switch ==
    \E t \in Threads \ {sched.cur} :
        LET f == sched.saved[t]
        IN  /\ pc' = f.pc
            /\ entry' = f.entry
            /\ args' = f.args
            /\ loc' = f.loc
            /\ hooks' = f.hooks
            /\ exc' = f.exc
            /\ result' = f.result
            /\ sched' = [cur |-> t,
                         saved |-> [sched.saved EXCEPT ![sched.cur] = Frame,
                                                       ![t] = IdleFrame]]
            /\ UNCHANGED host

ThreadNext ==
    \/ CallToken /\ Thread
    \/ TokenGrantType /\ Thread
    \/ TokenValidateClientId /\ Thread
    \/ TokenValidateClientSecret /\ Thread
    \/ TokenValidateScope /\ Thread
    \/ TokenValidateAuthorizationCode /\ Thread
    \/ TokenReport /\ Thread
    \/ TokenGenerateAccessToken /\ Thread
    \/ TokenGenerateRefreshToken /\ Thread
    \/ TokenPersist /\ Thread
    \/ TokenRespond /\ Thread
    \/ CallTokenFromUrl /\ Thread
    \/ Except /\ Thread
    \/ Switch

ThreadSpec == ThreadInit /\ [][ThreadNext]_vars

---------------------------------------------------------------------------
(* C1 *)

\* the error the claim expects of authorize, from what the hooks returned.
C1_Expected ==
    IF args["response_type"] # "code" THEN "unsupported_response_type"
    ELSE IF Ret("validate_client_id") = "False" THEN "unauthorized_client"
    ELSE IF Ret("validate_access") = "False" THEN "access_denied"
    ELSE IF Ret("validate_scope") = "False" THEN "invalid_scope"
    ELSE "none"

\* C1: every call of get_authorization_code in which no hook raises answers
\* by strict priority: a response_type other than "code" gives
\* unsupported_response_type; else an invalid client id gives
\* unauthorized_client; else invalid access gives access_denied; else an
\* invalid scope gives invalid_scope; else the call succeeds with a code.
C1_AuthorizePriority ==
    (Completed /\ InAuthorize) =>
        /\ IsRedirect
        /\ ErrorCode = C1_Expected
        /\ C1_Expected = "none" =>
              /\ "code" \in DOMAIN LocationParams
              /\ LocationParams["code"] = Ret("generate_authorization_code")

\* access and scope both fail, and access_denied is what is reported.
C1_Witness ==
    /\ Completed /\ InAuthorize
    /\ args["response_type"] = "code"
    /\ Ret("validate_client_id") = "True"
    /\ Ret("validate_access") = "False"
    /\ Ret("validate_scope") = "False"
    /\ ErrorCode = "access_denied"

---------------------------------------------------------------------------
(* C2 *)

\* the error the claim expects of token, from what the hooks returned.
C2_Expected ==
    IF args["grant_type"] # "authorization_code" THEN "unsupported_grant_type"
    ELSE IF Ret("validate_client_id") = "False"
            \/ Ret("validate_client_secret") = "False" THEN "invalid_client"
    ELSE IF Ret("validate_authorization_code") = "False" THEN "invalid_grant"
    ELSE IF Ret("validate_scope") = "False" THEN "invalid_scope"
    ELSE "none"

\* C2: every call of get_token in which no hook raises answers by strict
\* priority: a grant_type other than "authorization_code" gives
\* unsupported_grant_type; else an invalid client id or secret gives
\* invalid_client; else an invalid code gives invalid_grant; else an invalid
\* scope gives invalid_scope; else success with status 200.  Every error is
\* a status-400 JSON response whose body is {"error": err}.
C2_TokenPriority ==
    (Completed /\ InToken) =>
        /\ IsJson
        /\ ErrorCode = C2_Expected
        /\ IF C2_Expected = "none"
           THEN result.status_code = 200
           ELSE /\ result.status_code = 400
                /\ result.body.data = [error |-> C2_Expected]

\* the code and the scope both fail, and invalid_grant is what is reported.
C2_Witness ==
    /\ Completed /\ InToken
    /\ args["grant_type"] = "authorization_code"
    /\ args["code"] = "badcode"
    /\ Ret("validate_client_id") = "True"
    /\ Ret("validate_client_secret") = "True"
    /\ Ret("validate_authorization_code") = "False"
    /\ Ret("validate_scope") = "False"
    /\ result.status_code = 400
    /\ result.body.data = [error |-> "invalid_grant"]

---------------------------------------------------------------------------
(* C3 *)

\* the validation hooks a successful call must have passed.
C3_Required ==
    IF InAuthorize
    THEN {"validate_client_id", "validate_access", "validate_scope"}
    ELSE {"validate_client_id", "validate_client_secret", "validate_scope",
          "validate_authorization_code"}

\* C3: a call of authorize or token that answers with a protocol-validation
\* error has invoked no generator and no persist hook; a call that answers
\* with success has invoked its persist hook exactly once, after every
\* validation hook of the call, each of which returned true.
C3_NoSideEffectBeforeChecksPass ==
    (Completed /\ Responded /\ (InAuthorize \/ InToken)) =>
        IF ErrorCode # "none"
        THEN Invocations(GenerateHooks \cup PersistHooks) = {}
        ELSE /\ Cardinality(Invocations(PersistHooks)) = 1
             /\ \A p \in Invocations(PersistHooks) :
                   /\ hooks[p].name = (IF InAuthorize
                                       THEN "persist_authorization_code"
                                       ELSE "persist_token_information")
                   /\ \A n \in C3_Required :
                         \E v \in 1..(p - 1) :
                            hooks[v].name = n /\ hooks[v].ret = "True"
                   /\ \A v \in Invocations(ValidateHooks) :
                         v < p /\ hooks[v].ret = "True"

\* a successful token call, whose persist hook was the last hook of seven.
C3_Witness ==
    /\ Completed /\ Responded /\ InToken
    /\ ErrorCode = "none"
    /\ Len(hooks) = 7
    /\ hooks[7].name = "persist_token_information"

---------------------------------------------------------------------------
(* C4 *)

\* C4: whatever the hooks do, raising included, a call of any entry point
\* that returns a response either has invoked its persist hook exactly once
\* and returns success, or returns an error without having invoked the
\* persist hook: no error response follows an invocation of the persist hook.
C4_AllOrNothingPersistence ==
    Responded =>
        IF ErrorCode = "none"
        THEN Cardinality(Invocations(PersistHooks)) = 1
        ELSE Invocations(PersistHooks) = {}

---------------------------------------------------------------------------
(* C5 *)

WrongType ==
    \/ InAuthorize /\ args["response_type"] # "code"
    \/ InToken /\ args["grant_type"] # "authorization_code"

\* C5: a call of authorize whose response_type is not "code", and a call of
\* token whose grant_type is not "authorization_code", invokes no host hook
\* at any point, and returns the error response of its wrong type.
C5_WrongTypeInvokesNoHook ==
    WrongType =>
        /\ hooks = << >>
        /\ pc = "done" =>
              /\ Responded
              /\ ErrorCode = (IF InAuthorize THEN "unsupported_response_type"
                              ELSE "unsupported_grant_type")

\* authorize was called with response_type "token" and has answered.
C5_Witness ==
    /\ InAuthorize
    /\ args["response_type"] = "token"
    /\ Responded
    /\ ErrorCode = "unsupported_response_type"

---------------------------------------------------------------------------
(* C6 *)

\* the call has reached the point where its answer is decided, or is past it
\* (no hook having raised).
C6_Decided ==
    /\ ~WrongType
    /\ exc = "none"
    /\ pc \in {"a_report", "a_generate", "a_persist", "a_redirect",
               "t_report", "t_generate_access_token",
               "t_generate_refresh_token", "t_persist", "t_respond", "done"}

\* C6: the validation hooks are not short-circuited.  When an authorize call
\* with response_type "code" in which no hook raises decides its answer,
\* validate_client_id, validate_access and validate_scope have each been
\* invoked exactly once, whatever they returned; when such a token call
\* decides its answer, validate_client_id, validate_client_secret,
\* validate_scope and validate_authorization_code have each been invoked
\* exactly once; and no call invokes a validation hook after that point.
C6_EagerValidation ==
    C6_Decided =>
        /\ InAuthorize =>
              /\ HookCount("validate_client_id") = 1
              /\ HookCount("validate_access") = 1
              /\ HookCount("validate_scope") = 1
              /\ Cardinality(Invocations(ValidateHooks)) = 3
              /\ Invocations(ValidateHooks) = 1..3
        /\ InToken =>
              /\ HookCount("validate_client_id") = 1
              /\ HookCount("validate_client_secret") = 1
              /\ HookCount("validate_scope") = 1
              /\ HookCount("validate_authorization_code") = 1
              /\ Invocations(ValidateHooks) = 1..4

\* the client id is invalid, and the code was validated all the same.
C6_Witness ==
    /\ Completed /\ InToken
    /\ args["grant_type"] = "authorization_code"
    /\ Ret("validate_client_id") = "False"
    /\ HookCount("validate_authorization_code") = 1
    /\ ErrorCode = "invalid_client"

---------------------------------------------------------------------------
(* C7 *)

\* authorize has answered with success.
AuthorizeSucceeded ==
    Completed /\ InAuthorize /\ IsRedirect /\ ErrorCode = "none"

\* the query of redirect_uri itself.
OwnQuery == ParseQuery(ParseUrl(args["redirect_uri"]).query)

\* C7 as stated: the success redirect carries the generated code and the
\* caller's extra parameters, without response_type, client_id and
\* redirect_uri, and without scope.
C7_ScopeNotEchoed ==
    AuthorizeSucceeded =>
        /\ result.status_code = 302
        /\ DOMAIN LocationParams =
              ((DOMAIN OwnQuery \cup DOMAIN AuthorizeParams)
                  \ (AuthorizeRequired \cup {"scope"})) \cup {"code"}

\* C7, amended: a successful authorize returns status 302 whose Location is
\* redirect_uri with query parameters exactly: the generated code plus the
\* caller's extra parameters, scope included when the caller supplied it,
\* over the parameters of redirect_uri's own query, with response_type,
\* client_id and redirect_uri removed.
C7_SuccessRedirect ==
    AuthorizeSucceeded =>
        /\ result.status_code = 302
        /\ result.body = EmptyBody
        /\ result.headers["Location"].base = ParseUrl(args["redirect_uri"]).base
        /\ DOMAIN LocationParams =
              ((DOMAIN OwnQuery \cup DOMAIN AuthorizeParams)
                  \ AuthorizeRequired) \cup {"code"}
        /\ \A k \in DOMAIN LocationParams :
              LocationParams[k] =
                 IF k = "code" THEN Ret("generate_authorization_code")
                 ELSE IF k \in DOMAIN AuthorizeParams THEN AuthorizeParams[k]
                 ELSE OwnQuery[k]

\* authorize("code", "client1", "https://app/cb", scope="read", state="xyz")
\* with all hooks true: the Location carries code, scope and state.
C7_Witness ==
    /\ AuthorizeSucceeded
    /\ entry = "authorize"
    /\ args = [response_type |-> "code", client_id |-> "client1",
               redirect_uri |-> "https://app/cb", scope |-> "read",
               state |-> "xyz"]
    /\ DOMAIN LocationParams = {"code", "scope", "state"}
    /\ LocationParams["scope"] = "read"
    /\ LocationParams["state"] = "xyz"

---------------------------------------------------------------------------
(* C8 *)

TokenSucceeded == Completed /\ InToken /\ IsJson /\ ErrorCode = "none"

\* C8: what is persisted is what is returned.  In a successful authorize,
\* persist_authorization_code received the call's client_id and scope and the
\* code that the returned Location carries; in a successful token,
\* persist_token_information received the call's client_id, code and scope and
\* the access_token, token_type, expires_in and refresh_token of the returned
\* body, token_type and expires_in being "Bearer" and 3600.
C8_PersistedIsReturned ==
    /\ AuthorizeSucceeded =>
          /\ HookCount("persist_authorization_code") = 1
          /\ ArgsOf("persist_authorization_code") =
                [client_id |-> args["client_id"],
                 code |-> LocationParams["code"],
                 scope |-> Get(AuthorizeParams, "scope", "")]
    /\ TokenSucceeded =>
          /\ HookCount("persist_token_information") = 1
          /\ DOMAIN result.body.data =
                {"access_token", "token_type", "expires_in", "refresh_token"}
          /\ ArgsOf("persist_token_information") =
                [client_id |-> args["client_id"],
                 code |-> args["code"],
                 scope |-> Get(TokenParams, "scope", ""),
                 access_token |-> result.body.data.access_token,
                 token_type |-> result.body.data.token_type,
                 expires_in |-> result.body.data.expires_in,
                 refresh_token |-> result.body.data.refresh_token]
          /\ result.body.data.access_token = Ret("generate_access_token")
          /\ result.body.data.refresh_token = Ret("generate_refresh_token")
          /\ result.body.data.token_type = "Bearer"
          /\ result.body.data.expires_in = 3600

\* a successful token whose access token and refresh token differ.
C8_Witness ==
    /\ TokenSucceeded
    /\ result.body.data.access_token = "rnd1"
    /\ result.body.data.refresh_token = "rnd2"
    /\ ArgsOf("persist_token_information").access_token = "rnd1"
    /\ ArgsOf("persist_token_information").scope = "read"

---------------------------------------------------------------------------
(* C9 *)

JsonHeaders ==
    /\ {"Content-Type", "Cache-Control", "Pragma"} \subseteq DOMAIN result.headers
    /\ result.headers["Content-Type"] = "application/json;charset=UTF-8"
    /\ result.headers["Cache-Control"] = "no-store"
    /\ result.headers["Pragma"] = "no-cache"

\* the strings a response carries: the values of its Location's query, or
\* the string members of its JSON body.
Carried ==
    IF IsRedirect
    THEN {LocationParams[k] : k \in DOMAIN LocationParams}
    ELSE {result.body.data[k] : k \in DOMAIN result.body.data \ {"expires_in"}}

\* the code and the tokens that this call generated.
Secrets == {loc.code, loc.access_token, loc.refresh_token} \ {Unset}

\* C9: every response of authorize is a status-302 redirect with a Location
\* header and an empty body; every response of token and token_from_url is a
\* JSON response of status 200 or 400 with the three fixed headers; the code
\* a call generated is carried only as the code of the Location of a 302 that
\* reports no error, and the tokens it generated only as the access_token and
\* refresh_token of a status-200 JSON body that reports no error.
C9_TransportShape ==
    Responded =>
        /\ entry = "authorize" =>
              /\ result.status_code = 302
              /\ DOMAIN result.headers = {"Location"}
              /\ result.body = EmptyBody
        /\ entry \in {"token", "token_from_url"} =>
              /\ result.status_code \in {200, 400}
              /\ IsJson
              /\ JsonHeaders
        /\ IsRedirect \/ IsJson
        /\ ErrorCode # "none" => Carried \cap Secrets = {}
        /\ IsRedirect =>
              /\ result.status_code = 302
              /\ result.body = EmptyBody
              /\ {loc.access_token, loc.refresh_token} \cap Carried \subseteq {Unset}
              /\ \A k \in DOMAIN LocationParams :
                    LocationParams[k] \in Secrets => k = "code"
        /\ IsJson =>
              /\ loc.code \in Carried => loc.code = Unset
              /\ \A k \in DOMAIN result.body.data \ {"expires_in"} :
                    result.body.data[k] \in Secrets =>
                       /\ result.status_code = 200
                       /\ k \in {"access_token", "refresh_token"}

\* token_from_url has answered an error in JSON.
C9_Witness ==
    /\ Responded
    /\ entry = "token_from_url"
    /\ TokenRequired \subseteq DOMAIN args
    /\ result.status_code = 400
    /\ JsonHeaders
    /\ ErrorCode = "invalid_scope"

---------------------------------------------------------------------------
(* C10 *)

\* the query lacks a parameter that the operation requires.
MissingParameter ==
    \/ entry = "authorize_from_url" /\ ~(AuthorizeRequired \subseteq DOMAIN args)
    \/ entry = "token_from_url" /\ ~(TokenRequired \subseteq DOMAIN args)

\* C10: when the parsed query lacks a required parameter, no host hook is
\* ever invoked, and the call reports invalid_request: authorize_from_url
\* with a 302 redirect to the query's redirect_uri when there is one, and
\* with the status-400 JSON body {"error": "invalid_request"} when there is
\* none; token_from_url with that JSON response in either case.
C10_MissingParameter ==
    MissingParameter =>
        /\ hooks = << >>
        /\ pc = "done" =>
              /\ Responded
              /\ IF entry = "authorize_from_url"
                    /\ "redirect_uri" \in DOMAIN args
                 THEN /\ result.status_code = 302
                      /\ DOMAIN result.headers = {"Location"}
                      /\ result.headers["Location"].base =
                            ParseUrl(args["redirect_uri"]).base
                      /\ "error" \in DOMAIN LocationParams
                      /\ LocationParams["error"] = "invalid_request"
                      /\ result.body = EmptyBody
                 ELSE /\ result.status_code = 400
                      /\ IsJson
                      /\ JsonHeaders
                      /\ result.body.data = [error |-> "invalid_request"]

\* authorize_from_url of a query with a redirect_uri and no client_id.
C10_Witness ==
    /\ Responded
    /\ entry = "authorize_from_url"
    /\ "redirect_uri" \in DOMAIN args
    /\ "client_id" \notin DOMAIN args
    /\ result.status_code = 302
    /\ ErrorCode = "invalid_request"

---------------------------------------------------------------------------
(* C11 *)

\* a hook of this call raised.
HookRaised == \E i \in DOMAIN hooks : hooks[i].ret = "raise"

\* C11: when all required parameters are present and a host hook raises, of
\* whatever exception kind, authorize_from_url and token_from_url do not let
\* it through: they answer server_error, authorize_from_url with a 302
\* redirect to redirect_uri and token_from_url with a status-400 JSON
\* response; the failure is never reported as invalid_request.
C11_HookFaultIsServerError ==
    (pc = "done" /\ HookRaised
        /\ entry \in {"authorize_from_url", "token_from_url"}) =>
        /\ Responded
        /\ ErrorCode = "server_error"
        /\ IF entry = "authorize_from_url"
           THEN IsRedirect /\ result.status_code = 302
           ELSE IsJson /\ result.status_code = 400

---------------------------------------------------------------------------
(* C12 *)

\* C12: get_authorization_code and get_token, called directly, never swallow
\* a fault of a host hook: once a hook has raised, the call is over, the
\* caller receives that exception and no response, and the hook that raised
\* is the last hook of the call; a direct call that returns a response has
\* seen no hook raise.
C12_DirectCallsPropagate ==
    entry \in {"authorize", "token"} =>
        /\ HookRaised =>
              /\ pc = "done"
              /\ exc \in ExcKinds
              /\ result = Raised(exc)
              /\ \A i \in DOMAIN hooks :
                    hooks[i].ret = "raise" <=> i = Len(hooks)
        /\ (pc = "done" /\ ~HookRaised) => Responded /\ exc = "none"
        /\ result.kind = "raised" => HookRaised

\* validate_access raised in a direct authorize call: no scope validation,
\* no persist, and the caller receives the exception.
C12_Witness ==
    /\ entry = "authorize"
    /\ pc = "done"
    /\ Len(hooks) = 2
    /\ hooks[2].name = "validate_access"
    /\ hooks[2].ret = "raise"
    /\ result = Raised("StandardError")

---------------------------------------------------------------------------
(* C13 *)

\* an error redirect of the authorize phase.
ErrorRedirect ==
    /\ entry \in {"authorize", "authorize_from_url"}
    /\ IsRedirect
    /\ ErrorCode # "none"

\* C13: an authorize error response is a 302 whose Location is redirect_uri
\* plus only the error parameter: response_type, client_id and redirect_uri
\* are removed even when redirect_uri's own query contains them, the other
\* parameters of redirect_uri's own query are kept as they are, and neither
\* a parameter of the request (state, scope, code) nor a generated code is
\* added.
C13_ErrorRedirect ==
    ErrorRedirect =>
        /\ result.status_code = 302
        /\ result.body = EmptyBody
        /\ DOMAIN result.headers = {"Location"}
        /\ result.headers["Location"].base = ParseUrl(args["redirect_uri"]).base
        /\ DOMAIN LocationParams =
              (DOMAIN OwnQuery \ AuthorizeRequired) \cup {"error"}
        /\ \A k \in DOMAIN LocationParams \ {"error"} :
              LocationParams[k] = OwnQuery[k]
        /\ loc.code \in {LocationParams[k] : k \in DOMAIN LocationParams}
              => loc.code = Unset

\* access is denied for a request with scope and state whose redirect_uri
\* lists a client_id of its own: the Location carries error and x only.
C13_Witness ==
    /\ ErrorRedirect
    /\ args["redirect_uri"] = "https://app/cb?client_id=old&x=1"
    /\ {"scope", "state"} \subseteq DOMAIN args
    /\ ErrorCode = "access_denied"
    /\ DOMAIN LocationParams = {"error", "x"}

---------------------------------------------------------------------------
(* C18 *)

\* C18: in get_authorization_code_from_url the lookup params['redirect_uri']
\* of the server_error branch never fails: whenever a StandardError other
\* than TypeError reaches the except clauses the parsed query holds
\* redirect_uri, and no KeyError ever leaves the call; a query without
\* redirect_uri raises the TypeError of a missing argument before any hook
\* runs and ends in the invalid_request branch.
C18_ServerErrorHasRedirectUri ==
    entry = "authorize_from_url" =>
        /\ exc = "StandardError" => "redirect_uri" \in DOMAIN args
        /\ result # Raised("KeyError")
        /\ "redirect_uri" \notin DOMAIN args =>
              /\ hooks = << >>
              /\ exc = "TypeError"
              /\ pc \in {"except", "done"}
              /\ pc = "done" => result = _missing_redirect_uri_response

\* the server_error branch was taken, after persist_authorization_code raised.
C18_Witness ==
    /\ entry = "authorize_from_url"
    /\ pc = "done"
    /\ exc = "StandardError"
    /\ HookCount("persist_authorization_code") = 1
    /\ IsRedirect
    /\ ErrorCode = "server_error"

---------------------------------------------------------------------------
(* C19 *)

\* the scope the caller supplied, "" when it supplied none.
SuppliedScope == IF "scope" \in DOMAIN args THEN args["scope"] ELSE ""

ScopeHooks ==
    {"validate_scope", "persist_authorization_code",
     "persist_token_information"}

\* C19: validate_scope and the persist hook of authorize and of token receive
\* the scope the caller supplied, unchanged, and the empty string when the
\* caller supplied none; validate_scope receives it with the call's
\* client_id.
C19_ScopeDefault ==
    \A i \in Invocations(ScopeHooks) :
        /\ hooks[i].args.scope = SuppliedScope
        /\ hooks[i].args.client_id = args["client_id"]

\* a successful token call without scope: both hooks received "".
C19_Witness ==
    /\ TokenSucceeded
    /\ "scope" \notin DOMAIN args
    /\ ArgsOf("validate_scope") = [client_id |-> "client1", scope |-> ""]
    /\ ArgsOf("persist_token_information").scope = ""

---------------------------------------------------------------------------
(* C14 *)

\* successful authorize calls with identical arguments returned different
\* codes.
IssuedAnew ==
    \A i, j \in DOMAIN host.issued :
        (i < j /\ host.issued[i].args = host.issued[j].args)
            => host.issued[i].code # host.issued[j].code

\* the successful call in hand invoked its own generators and its own
\* persist hook, once each.
OwnInvocations ==
    (pc = "done" /\ Succeeded) =>
        IF IsRedirect
        THEN /\ HookCount("generate_authorization_code") = 1
             /\ HookCount("persist_authorization_code") = 1
        ELSE /\ HookCount("generate_access_token") = 1
             /\ HookCount("generate_refresh_token") = 1
             /\ HookCount("persist_token_information") = 1

\* C14 as stated: over any sequence of authorize and token calls, with a
\* generator that yields a fresh value at each invocation, every successful
\* call invokes its generators and its persist hook anew, two successful
\* authorize calls with identical inputs return different codes, and between
\* calls the number of persist invocations equals the number of successful
\* calls.
C14_PersistPerSuccess ==
    /\ OwnInvocations
    /\ IssuedAnew
    /\ pc = "idle" => host.invoked = host.succeeded

\* C14, amended: the persist invocations that returned are as many as the
\* successful calls; a persist hook that raised was invoked in a call that
\* did not succeed, so the invocations may outnumber the successes.
C14_NoMemoization ==
    /\ OwnInvocations
    /\ IssuedAnew
    /\ pc = "idle" =>
          /\ host.returned = host.succeeded
          /\ host.invoked >= host.succeeded
          /\ host.invoked <= host.calls

\* two successful authorize calls with identical arguments, one after the
\* other, each with its own persist invocation.
C14_Witness ==
    /\ pc = "idle"
    /\ Len(host.issued) = 2
    /\ host.issued[1].args = host.issued[2].args
    /\ host.issued[1].code = "rnd1"
    /\ host.issued[2].code = "rnd2"
    /\ host.succeeded = 2
    /\ host.invoked = 2

---------------------------------------------------------------------------
(* C16 *)

\* a successful authorize call returned `code` to `client_id` earlier.
IssuedTo(client_id, code) ==
    \E i \in DOMAIN host.issued :
        /\ host.issued[i].args["client_id"] = client_id
        /\ host.issued[i].code = code

\* C16: with a host whose validate_authorization_code is true exactly for the
\* pairs persist_authorization_code stored, a token call succeeds only with a
\* code that an earlier successful authorize call returned to the same
\* client_id, and persist_token_information is invoked only for such a code.
C16_PhaseOrdering ==
    /\ (pc = "done" /\ Succeeded /\ IsJson) =>
          IssuedTo(args["client_id"], args["code"])
    /\ \A i \in Invocations({"persist_token_information"}) :
          IssuedTo(hooks[i].args.client_id, hooks[i].args.code)

\* a token call of client2 succeeded with the code issued to client2.
C16_Witness ==
    /\ pc = "done"
    /\ entry = "token"
    /\ Succeeded
    /\ args["client_id"] = "client2"
    /\ args["code"] = "rnd1"
    /\ Len(host.issued) = 1
    /\ host.issued[1].args["client_id"] = "client2"
    /\ host.exchanged = {"rnd1"}

---------------------------------------------------------------------------
(* C17 *)

\* C17: when a token call succeeds for a code, the scope given to
\* persist_token_information is the scope persist_authorization_code was
\* given when the code was issued.
C17_ScopeBinding ==
    (pc = "done" /\ Succeeded /\ IsJson) =>
        \A c \in host.codes :
            (c.client_id = args["client_id"] /\ c.code = args["code"])
                => ArgsOf("persist_token_information").scope = c.scope

---------------------------------------------------------------------------
(* C15 *)

\* the frame of thread t.
FrameOf(t) == IF t = sched.cur THEN Frame ELSE sched.saved[t]

\* thread t received a successful token response for `code`.
Exchanged(t, code) ==
    LET f == FrameOf(t)
    IN  /\ f.pc = "done"
        /\ f.result.kind = "response"
        /\ f.result.status_code = 200
        /\ f.args["code"] = code

\* C15: with atomic hooks, a validate_authorization_code that is true only
\* for a code persisted and not yet exchanged, and a
\* persist_token_information that marks the code exchanged, in every
\* interleaving of concurrent token calls each code yields at most one
\* successful token response.
C15_SingleUse ==
    \A code \in Vals("code") :
        Cardinality({t \in Threads : Exchanged(t, code)}) <= 1

=============================================================================
